---- MODULE Spec2Model ----
(***************************************************************************)
(* Model of src/src/Engine/FormulaEvaluator.ts: the recursive-descent      *)
(* evaluator of spreadsheet formulas (expression -> term -> factor).       *)
(*                                                                         *)
(* Numbers are JavaScript numbers, that is IEEE-754 doubles with NaN, the  *)
(* infinities, signed zeros and subnormals; +, -, * and / round to         *)
(* nearest, ties to even, as the language does.                            *)
(***************************************************************************)
EXTENDS Integers, Sequences, FiniteSets

VARIABLES this, returned, called, repeated

vars == <<this, returned, called, repeated>>

\* ------------------------------------------------------------------ bounds
\* Longest formula of the first call on a new evaluator (all tokens).
MaxLen == 4
\* Longest formula of the first call when the tokens are literals only.
MaxLenLit == 5
\* Longest formula in sequences of calls on one evaluator.
MaxLenSeq == 2

\* ----------------------------------------------------------- JS numbers
\* A JavaScript number is an IEEE-754 double: [kind, sign, mant, exp] with
\* kind "nan", "inf" or "num"; a "num" is sign * mant * 2^exp, where mant is
\* a natural number below 2^53 written as its limbs in base 2^15, least
\* significant first, and is odd (zero is the empty mantissa with exp 0), so
\* every double has exactly one representation.
Base == 32768
LimbBits == 15
Precision == 53
MinExponent == 0 - 1074
MaxExponent == 1024

Max(x, y) == IF x >= y THEN x ELSE y
Min(x, y) == IF x <= y THEN x ELSE y

\* ---- natural numbers of any size, as limbs
RECURSIVE NTrim(_)
NTrim(a) ==
  IF a = <<>> THEN a
  ELSE IF a[Len(a)] = 0 THEN NTrim(SubSeq(a, 1, Len(a) - 1))
  ELSE a

NHead(a) == IF a = <<>> THEN 0 ELSE Head(a)
NTail(a) == IF a = <<>> THEN a ELSE Tail(a)

RECURSIVE NAddCarry(_, _, _)
NAddCarry(a, b, c) ==
  IF a = <<>> /\ b = <<>> THEN (IF c = 0 THEN <<>> ELSE <<c>>)
  ELSE <<(NHead(a) + NHead(b) + c) % Base>>
         \o NAddCarry(NTail(a), NTail(b), (NHead(a) + NHead(b) + c) \div Base)

NAdd(a, b) == NAddCarry(a, b, 0)

\* a - b - c for a >= b + c, before trimming.
RECURSIVE NSubBorrow(_, _, _)
NSubBorrow(a, b, c) ==
  IF a = <<>> THEN <<>>
  ELSE <<(Head(a) - NHead(b) - c) % Base>>
         \o NSubBorrow(Tail(a), NTail(b), IF Head(a) - NHead(b) - c < 0 THEN 1 ELSE 0)

NSub(a, b) == NTrim(NSubBorrow(a, b, 0))

\* -1, 0 or 1 as a < b, a = b or a > b.
RECURSIVE NCmpFrom(_, _, _)
NCmpFrom(a, b, i) ==
  IF i = 0 THEN 0
  ELSE IF a[i] < b[i] THEN -1
  ELSE IF a[i] > b[i] THEN 1
  ELSE NCmpFrom(a, b, i - 1)

NCmp(a, b) ==
  IF Len(a) < Len(b) THEN -1
  ELSE IF Len(a) > Len(b) THEN 1
  ELSE NCmpFrom(a, b, Len(a))

\* a * k + c for a limb k.
RECURSIVE NMulLimb(_, _, _)
NMulLimb(a, k, c) ==
  IF a = <<>> THEN (IF c = 0 THEN <<>> ELSE <<c>>)
  ELSE <<(Head(a) * k + c) % Base>> \o NMulLimb(Tail(a), k, (Head(a) * k + c) \div Base)

NScale(a, k) == IF k = 0 THEN <<>> ELSE NMulLimb(a, k, 0)

RECURSIVE NMul(_, _)
NMul(a, b) ==
  IF a = <<>> \/ b = <<>> THEN <<>>
  ELSE NAdd(NScale(a, Head(b)), NTrim(<<0>> \o NMul(a, Tail(b))))

\* Quotient and remainder of a by a limb d > 0.
RECURSIVE NDivLimb(_, _)
NDivLimbStep(lo, hi, d) ==
  [q |-> NTrim(<<(hi.r * Base + lo) \div d>> \o hi.q), r |-> (hi.r * Base + lo) % d]

NDivLimb(a, d) ==
  IF a = <<>> THEN [q |-> <<>>, r |-> 0]
  ELSE NDivLimbStep(Head(a), NDivLimb(Tail(a), d), d)

\* The largest limb q with q * d <= cur, found bit by bit.
RECURSIVE NQuotientLimb(_, _, _, _)
NQuotientLimb(cur, d, q, bit) ==
  IF bit = 0 THEN q
  ELSE IF NCmp(NScale(d, q + bit), cur) <= 0
       THEN NQuotientLimb(cur, d, q + bit, bit \div 2)
  ELSE NQuotientLimb(cur, d, q, bit \div 2)

\* Quotient and remainder of a by d > 0, both as limbs.
RECURSIVE NDivMod(_, _)
NDivModDigit(cur, hi, d, q) ==
  [q |-> NTrim(<<q>> \o hi.q), r |-> NSub(cur, NScale(d, q))]

NDivModStep(cur, hi, d) ==
  NDivModDigit(cur, hi, d, NQuotientLimb(cur, d, 0, Base \div 2))

NDivMod(a, d) ==
  IF a = <<>> THEN [q |-> <<>>, r |-> <<>>]
  ELSE IF Len(d) = 1
       THEN [q |-> NDivLimb(a, d[1]).q,
             r |-> NTrim(<<NDivLimb(a, d[1]).r>>)]
  ELSE NDivModStep(NTrim(<<Head(a)>> \o NDivMod(Tail(a), d).r), NDivMod(Tail(a), d), d)

\* a * 2^k and floor(a / 2^k).
Zeros(n) == [i \in 1..n |-> 0]

NShl(a, k) ==
  IF a = <<>> THEN a
  ELSE Zeros(k \div LimbBits) \o NScale(a, 2 ^ (k % LimbBits))

NShr(a, k) ==
  IF k \div LimbBits >= Len(a) THEN <<>>
  ELSE NDivLimb(SubSeq(a, k \div LimbBits + 1, Len(a)), 2 ^ (k % LimbBits)).q

RECURSIVE LimbLen(_)
LimbLen(x) == IF x = 0 THEN 0 ELSE 1 + LimbLen(x \div 2)

\* The number of bits of a, and bit i of a (bit 0 is the lowest).
NBitLen(a) ==
  IF a = <<>> THEN 0 ELSE LimbBits * (Len(a) - 1) + LimbLen(a[Len(a)])

NBit(a, i) ==
  IF i < 0 \/ i \div LimbBits >= Len(a) THEN 0
  ELSE (a[i \div LimbBits + 1] \div (2 ^ (i % LimbBits))) % 2

\* Are the k lowest bits of a all 0?
NLowZero(a, k) ==
  /\ \A j \in 1..Min(k \div LimbBits, Len(a)) : a[j] = 0
  /\ k \div LimbBits < Len(a) => a[k \div LimbBits + 1] % (2 ^ (k % LimbBits)) = 0

\* The number of 0 bits below the lowest 1 bit of a # 0.
RECURSIVE LimbTrailing(_)
LimbTrailing(x) == IF x % 2 = 1 THEN 0 ELSE 1 + LimbTrailing(x \div 2)

RECURSIVE NTrailing(_)
NTrailing(a) ==
  IF Head(a) # 0 THEN LimbTrailing(Head(a)) ELSE LimbBits + NTrailing(Tail(a))

\* ---- doubles
NaN == [kind |-> "nan", sign |-> 1, mant |-> <<>>, exp |-> 0]
Infinity == [kind |-> "inf", sign |-> 1, mant |-> <<>>, exp |-> 0]
Zero == [kind |-> "num", sign |-> 1, mant |-> <<>>, exp |-> 0]
NegZero == [kind |-> "num", sign |-> -1, mant |-> <<>>, exp |-> 0]

Inf(s) == [kind |-> "inf", sign |-> s, mant |-> <<>>, exp |-> 0]
SignedZero(s) == [kind |-> "num", sign |-> s, mant |-> <<>>, exp |-> 0]

IsNaN(a) == a.kind = "nan"
IsInf(a) == a.kind = "inf"
IsZero(a) == a.kind = "num" /\ a.mant = <<>>
IsNumberValue(a) ==
  /\ DOMAIN a = {"kind", "sign", "mant", "exp"}
  /\ a.kind \in {"nan", "inf", "num"}
  /\ a.sign \in {-1, 1}
  /\ a.exp \in Int
  /\ \A i \in DOMAIN a.mant : a.mant[i] \in 0..(Base - 1)
  /\ NBitLen(a.mant) <= Precision

\* sign * m * 2^e for a value that needs no rounding: overflow gives
\* Infinity, and the mantissa is made odd.
Exact(s, m, e) ==
  IF m = <<>> THEN SignedZero(s)
  ELSE IF NBitLen(m) + e > MaxExponent THEN Inf(s)
  ELSE [kind |-> "num", sign |-> s, mant |-> NShr(m, NTrailing(m)),
        exp |-> e + NTrailing(m)]

\* Round to nearest, ties to even, after dropping the `drop` lowest bits of m.
RoundUp(m, drop, sticky) ==
  /\ NBit(m, drop - 1) = 1
  /\ (sticky \/ ~NLowZero(m, drop - 1) \/ NBit(m, drop) = 1)

RoundDrop(s, m, e, sticky, drop) ==
  IF drop <= 0 THEN Exact(s, m, e)
  ELSE IF RoundUp(m, drop, sticky) THEN Exact(s, NAdd(NShr(m, drop), <<1>>), e + drop)
  ELSE Exact(s, NShr(m, drop), e + drop)

\* The double nearest to sign * (m + fraction) * 2^e, where the fraction is
\* in (0, 1) when sticky and 0 otherwise: 53 bits are kept, fewer below the
\* smallest exponent.
Round(s, m, e, sticky) ==
  RoundDrop(s, m, e, sticky, Max(NBitLen(m) - Precision, MinExponent - e))

\* The double of an integer that fits a limb.
FromInt(n) ==
  IF n = 0 THEN Zero
  ELSE Exact(IF n < 0 THEN -1 ELSE 1, <<IF n < 0 THEN -n ELSE n>>, 0)

Neg(a) == IF IsNaN(a) THEN a ELSE [a EXCEPT !.sign = -@]

\* The sum of two finite doubles that are not 0, with their mantissas
\* brought to the common exponent e.
PlusAligned(sa, ma, sb, mb, e) ==
  IF sa = sb THEN Round(sa, NAdd(ma, mb), e, FALSE)
  ELSE IF NCmp(ma, mb) = 0 THEN Zero
  ELSE IF NCmp(ma, mb) > 0 THEN Round(sa, NSub(ma, mb), e, FALSE)
  ELSE Round(sb, NSub(mb, ma), e, FALSE)

\* value += operand
Plus(a, b) ==
  IF IsNaN(a) \/ IsNaN(b) THEN NaN
  ELSE IF IsInf(a) /\ IsInf(b) THEN (IF a = b THEN a ELSE NaN)
  ELSE IF IsInf(a) THEN a
  ELSE IF IsInf(b) THEN b
  ELSE IF IsZero(a) /\ IsZero(b) THEN (IF a = b THEN a ELSE Zero)
  ELSE IF IsZero(a) THEN b
  ELSE IF IsZero(b) THEN a
  ELSE PlusAligned(a.sign, NShl(a.mant, a.exp - Min(a.exp, b.exp)),
                   b.sign, NShl(b.mant, b.exp - Min(a.exp, b.exp)),
                   Min(a.exp, b.exp))

\* value -= operand
Minus(a, b) == Plus(a, Neg(b))

\* value *= operand
Times(a, b) ==
  IF IsNaN(a) \/ IsNaN(b) THEN NaN
  ELSE IF IsInf(a) \/ IsInf(b)
       THEN (IF IsZero(a) \/ IsZero(b) THEN NaN ELSE Inf(a.sign * b.sign))
  ELSE IF IsZero(a) \/ IsZero(b) THEN SignedZero(a.sign * b.sign)
  ELSE Round(a.sign * b.sign, NMul(a.mant, b.mant), a.exp + b.exp, FALSE)

\* The quotient of two finite doubles that are not 0: the dividend is
\* scaled by 2^k so that the integer quotient has at least 55 bits.
DivideRounded(s, dm, e) == Round(s, dm.q, e, dm.r # <<>>)

DivideScaled(a, b, k) ==
  DivideRounded(a.sign * b.sign, NDivMod(NShl(a.mant, k), b.mant), a.exp - b.exp - k)

\* value /= divisor
Divide(a, b) ==
  IF IsNaN(a) \/ IsNaN(b) THEN NaN
  ELSE IF IsInf(b) THEN (IF IsInf(a) THEN NaN ELSE SignedZero(a.sign * b.sign))
  ELSE IF IsZero(b) THEN (IF IsZero(a) THEN NaN ELSE Inf(a.sign * b.sign))
  ELSE IF IsInf(a) THEN Inf(a.sign * b.sign)
  ELSE IF IsZero(a) THEN SignedZero(a.sign * b.sign)
  ELSE DivideScaled(a, b, Max(0, Precision + 2 + NBitLen(b.mant) - NBitLen(a.mant)))

\* ---------------------------------------------------------------- tokens
\* What reading _currentFormula past its end yields.
undefined == "undefined"

NumberTokens == {"0", "3"}
LitNumberTokens == {"0", "2", "3"}
OperatorTokens == {"+", "-", "*", "/"}
ParenTokens == {"(", ")"}
Labels == {"A1", "B2", "C3"}

\* The tokens of the formulas explored: with cell references, and literal only.
Tokens == NumberTokens \cup OperatorTokens \cup ParenTokens \cup Labels
LitTokens == LitNumberTokens \cup OperatorTokens \cup ParenTokens

\* The formulas of exactly k tokens drawn from T.
FormulasOfLen(T, k) == [1..k -> T]

\* JavaScript Number(token), on the decimal tokens "0" .. "10" and on the
\* empty string (which converts to 0); every other token of the model,
\* undefined included, converts to NaN.
DecimalTokens == <<"0", "1", "2", "3", "4", "5", "6", "7", "8", "9", "10">>

Number(token) ==
  IF token = "" THEN Zero
  ELSE IF \E n \in DOMAIN DecimalTokens : DecimalTokens[n] = token
  THEN FromInt((CHOOSE n \in DOMAIN DecimalTokens : DecimalTokens[n] = token) - 1)
  ELSE NaN

isNumber(token) == ~IsNaN(Number(token))

\* ----------------------------------------------------- error catalogue
ErrorMessages ==
  [emptyFormula |-> "emptyFormula",
   invalidFormula |-> "invalidFormula",
   invalidCell |-> "invalidCell",
   divideByZero |-> "divideByZero"]

\* ------------------------------------------------------------ cell store
\* A1 holds a clean value, B2 carries a propagated error, C3 is an empty
\* cell whose error is the emptyFormula sentinel.
SheetMemory ==
  [l \in Labels |->
     CASE l = "A1" -> [formula |-> <<"2">>, error |-> "", value |-> FromInt(2)]
       [] l = "B2" -> [formula |-> <<"3", "+">>, error |-> ErrorMessages.invalidFormula,
                       value |-> Zero]
       [] l = "C3" -> [formula |-> <<>>, error |-> ErrorMessages.emptyFormula,
                       value |-> Zero]]

isCellReference(token) == token \in Labels

getCellByLabel(memory, token) == memory[token]

getCellValueNoSentinel(memory, token) ==
  LET cell == getCellByLabel(memory, token)
  IN  IF cell.error # ""
      THEN [value |-> Zero, error |-> cell.error]
      ELSE IF Len(cell.formula) = 0
      THEN [value |-> Zero, error |-> ErrorMessages.invalidCell]
      ELSE [value |-> cell.value, error |-> ""]

getCellValue(memory, token) ==
  LET cell == getCellByLabel(memory, token)
  IN  IF cell.error # "" /\ cell.error # ErrorMessages.emptyFormula
      THEN [value |-> Zero, error |-> cell.error]
      ELSE IF Len(cell.formula) = 0
      THEN [value |-> Zero, error |-> ErrorMessages.invalidCell]
      ELSE [value |-> cell.value, error |-> ""]

\* ------------------------------------------------------- instrumentation
\* What happened during one call of evaluate; not read by the evaluator.
NoTrace ==
  [seen |-> {}, zeroDiv |-> FALSE, zeroDivAt |-> 0, after |-> {},
   oob |-> FALSE, factorCalls |-> 0, expressionCalls |-> 0, loops |-> 0,
   refErrors |-> <<>>, refValues |-> <<>>]

Note(s, ev) ==
  [s EXCEPT !.trace.seen = @ \cup {ev},
            !.trace.after = IF s.trace.zeroDiv THEN @ \cup {ev} ELSE @]

\* -------------------------------------------------------------- evaluator
NewEvaluator(memory) ==
  [errorOccurred |-> FALSE, errorMessage |-> "", currentFormula |-> <<>>,
   currentTokenIndex |-> 0, sheetMemory |-> memory, result |-> Zero,
   lastResult |-> Zero, trace |-> NoTrace]

currentTokenDefaulted(s) ==
  IF s.currentTokenIndex + 1 \in DOMAIN s.currentFormula
  THEN s.currentFormula[s.currentTokenIndex + 1]
  ELSE "0"

currentToken(s) ==
  IF s.currentTokenIndex + 1 \in DOMAIN s.currentFormula
  THEN s.currentFormula[s.currentTokenIndex + 1]
  ELSE undefined

advanceToken(s) ==
  Note([s EXCEPT !.currentTokenIndex = @ + 1,
                 !.trace.oob = @ \/ s.currentTokenIndex >= Len(s.currentFormula)],
       "advance")

\* The three assignments shared by the failure branches: _lastResult = NaN,
\* _errorMessage = message and, where the branch sets it, _errorOccurred.
latch(s, message, flag, ev) ==
  Note(Note([s EXCEPT !.lastResult = NaN,
                      !.errorMessage = message,
                      !.errorOccurred = @ \/ flag],
            ev), "error")

matchTokenAdvancing(s, expected) ==
  IF currentToken(s) = expected
  THEN [s |-> advanceToken(s), value |-> TRUE]
  ELSE [s |-> advanceToken(latch(s, ErrorMessages.invalidFormula, FALSE, "matchFail")),
        value |-> FALSE]

matchToken(s, expected) ==
  IF currentToken(s) = expected
  THEN [s |-> advanceToken(s), value |-> TRUE]
  ELSE [s |-> latch(s, ErrorMessages.invalidFormula, FALSE, "matchFail"),
        value |-> FALSE]

RECURSIVE factor(_), factorToken(_, _), term(_), termLoop(_, _), termStep(_, _, _),
          expression(_), expressionLoop(_, _), expressionStep(_, _, _)

\* factor, number branch.
factorNumber(s, token) == [s |-> advanceToken(s), value |-> Number(token)]

\* factor, cell reference branch: cv is what getCellValue returned.
factorCellError(s, cv) ==
  IF cv.error # "" THEN latch(s, cv.error, TRUE, "refError") ELSE s

factorCell(s, cv) ==
  [s |-> advanceToken(factorCellError(
            [s EXCEPT !.trace.refErrors = Append(@, cv.error),
                      !.trace.refValues = Append(@, cv.value)], cv)),
   value |-> cv.value]

\* factor, parenthesis branch after the inner expression e: the result of
\* matchToken(')') is ignored.
factorClose(e) == [s |-> matchToken(e.s, ")").s, value |-> e.value]

\* factor, fallback branch.
factorBad(s) ==
  [s |-> latch(s, ErrorMessages.invalidFormula, TRUE, "badFactor"), value |-> Zero]

factorToken(s, token) ==
  IF isNumber(token) THEN factorNumber(s, token)
  ELSE IF isCellReference(token)
       THEN factorCell(s, getCellValue(s.sheetMemory, token))
  ELSE IF token = "(" THEN factorClose(expression(advanceToken(s)))
  ELSE factorBad(s)

factor(s) ==
  factorToken(Note([s EXCEPT !.trace.factorCalls = @ + 1], "factor"), currentToken(s))

\* term, the zero divisor branch: the first detection is remembered.
zeroDivisorSeen(s) ==
  IF s.trace.zeroDiv THEN s
  ELSE [s EXCEPT !.trace.zeroDiv = TRUE, !.trace.zeroDivAt = s.currentTokenIndex]

zeroDivisor(s) ==
  [s |-> zeroDivisorSeen(Note([s EXCEPT !.errorMessage = ErrorMessages.divideByZero,
                                        !.errorOccurred = TRUE,
                                        !.lastResult = Infinity],
                              "zeroDivisor")),
   value |-> Infinity]

\* term, one iteration of the while loop after the operator op was consumed
\* and the factor f evaluated.
termStep(op, value, f) ==
  IF op = "*" THEN termLoop(Note(f.s, "apply"), Times(value, f.value))
  ELSE IF IsZero(f.value) THEN zeroDivisor(f.s)
  ELSE termLoop(Note(f.s, "apply"), Divide(value, f.value))

termLoop(s, value) ==
  IF currentToken(s) = "*" \/ currentToken(s) = "/"
  THEN termStep(currentToken(s), value,
                factor(advanceToken(Note([s EXCEPT !.trace.loops = @ + 1], "loop"))))
  ELSE [s |-> s, value |-> value]

termFrom(f) == termLoop(f.s, f.value)

term(s) == termFrom(factor(s))

\* expression, one iteration of the while loop after the operator op was
\* consumed and the term t evaluated.
expressionStep(op, value, t) ==
  IF op = "+" THEN expressionLoop(Note(t.s, "apply"), Plus(value, t.value))
  ELSE expressionLoop(Note(t.s, "apply"), Minus(value, t.value))

expressionLoop(s, value) ==
  IF currentToken(s) = "+" \/ currentToken(s) = "-"
  THEN expressionStep(currentToken(s), value,
                      term(advanceToken(Note([s EXCEPT !.trace.loops = @ + 1], "loop"))))
  ELSE [s |-> s, value |-> value]

expressionFrom(t) == expressionLoop(t.s, t.value)

expressionOfFactors(s) ==
  expressionFrom(factor([s EXCEPT !.trace.expressionCalls = @ + 1]))

expression(s) ==
  expressionFrom(term([s EXCEPT !.trace.expressionCalls = @ + 1]))

\* evaluate, the reset on entry.
evaluateResetKeepsCursor(s, formula) ==
  [s EXCEPT !.currentFormula = formula,
            !.errorOccurred = FALSE,
            !.errorMessage = "",
            !.trace = NoTrace]

evaluateReset(s, formula) ==
  [s EXCEPT !.currentFormula = formula,
            !.currentTokenIndex = 0,
            !.errorOccurred = FALSE,
            !.errorMessage = "",
            !.trace = NoTrace]

\* evaluate, the empty formula.
evaluateEmpty(s) ==
  [s |-> [s EXCEPT !.errorMessage = ErrorMessages.emptyFormula], value |-> Zero]

\* evaluate, _result = expression(); _lastResult = _result.
evaluateStore(e) == [e.s EXCEPT !.result = e.value, !.lastResult = e.value]

\* evaluate, the check for unconsumed tokens and the return.
evaluateReturn(s) ==
  IF s.currentTokenIndex # Len(s.currentFormula) /\ ~s.errorOccurred
  THEN [s |-> Note([s EXCEPT !.errorMessage = ErrorMessages.invalidFormula], "error"),
        value |-> Zero]
  ELSE [s |-> s, value |-> s.result]

evaluateResult(s) == [s |-> s, value |-> s.result]

evaluateKeepsPrefix(s, formula) ==
  IF Len(formula) = 0 THEN evaluateEmpty(evaluateReset(s, formula))
  ELSE evaluateResult(evaluateStore(expression(evaluateReset(s, formula))))

evaluateKeepsCursor(s, formula) ==
  IF Len(formula) = 0 THEN evaluateEmpty(evaluateResetKeepsCursor(s, formula))
  ELSE evaluateReturn(evaluateStore(expression(evaluateResetKeepsCursor(s, formula))))

evaluate(s, formula) ==
  IF Len(formula) = 0 THEN evaluateEmpty(evaluateReset(s, formula))
  ELSE evaluateReturn(evaluateStore(expression(evaluateReset(s, formula))))

\* -------------------------------------------------------- state machine
NoValue == [kind |-> "none", sign |-> 1, mant |-> <<>>, exp |-> 0]

Init ==
  /\ this = NewEvaluator(SheetMemory)
  /\ returned = NoValue
  /\ called = FALSE
  /\ repeated = FALSE

\* One call evaluate(formula) on the evaluator, from entry to return.
Call(formula) ==
  LET r == evaluate(this, formula)
  IN  /\ this' = r.s
      /\ returned' = r.value
      /\ called' = TRUE
      /\ repeated' = (called /\ formula = this.currentFormula)

\* The first call on a new evaluator, any formula over all tokens.
EvaluateFirst ==
  /\ ~called
  /\ \E k \in 0..MaxLen : \E formula \in FormulasOfLen(Tokens, k) : Call(formula)

\* The first call on a new evaluator, any formula over literals only.
EvaluateLiteral ==
  /\ ~called
  /\ \E k \in 0..MaxLenLit : \E formula \in FormulasOfLen(LitTokens, k) : Call(formula)

\* Any call, first or later, on the same evaluator.
EvaluateAgain ==
  \E k \in 0..MaxLenSeq : \E formula \in FormulasOfLen(Tokens, k) : Call(formula)

Next == EvaluateFirst
NextLit == EvaluateLiteral
NextSeq == EvaluateAgain

Spec == Init /\ [][Next]_vars
SpecLit == Init /\ [][NextLit]_vars
SpecSeq == Init /\ [][NextSeq]_vars

\* ---------------------------------------------------- reference evaluator
\* The value a formula denotes, computed without the descent: a formula with
\* a '+' or '-' outside all parentheses splits at the LAST such operator
\* (left association), otherwise at the last '*' or '/' outside parentheses,
\* otherwise it is one atom or a parenthesised formula.

\* Parentheses opened and not yet closed before position k.
Depth(f, k) ==
  Cardinality({j \in 1..(k - 1) : f[j] = "("})
    - Cardinality({j \in 1..(k - 1) : f[j] = ")"})

Balanced(f) ==
  /\ \A k \in 1..Len(f) : Depth(f, k + 1) >= 0
  /\ Depth(f, Len(f) + 1) = 0

TopLevel(f, ops) == {k \in 1..Len(f) : f[k] \in ops /\ Depth(f, k) = 0}

Last(S) == CHOOSE k \in S : \A j \in S : j <= k

\* The error string the lookup of a cell reports ("" when it reports none).
LookupError(cell) ==
  IF cell.error # "" /\ cell.error # ErrorMessages.emptyFormula THEN cell.error
  ELSE IF cell.formula = <<>> THEN ErrorMessages.invalidCell
  ELSE ""

RefLiteral(token) ==
  CASE token = "0" -> FromInt(0)
    [] token = "2" -> FromInt(2)
    [] token = "3" -> FromInt(3)

NotWellFormed ==
  [ok |-> FALSE, dz |-> FALSE, dzLit |-> FALSE, hasRef |-> FALSE, v |-> NaN]

\* The value of one atom; an erroring reference counts as 0.
RefAtom(token) ==
  IF token \in LitNumberTokens
  THEN [ok |-> TRUE, dz |-> FALSE, dzLit |-> FALSE, hasRef |-> FALSE,
        v |-> RefLiteral(token)]
  ELSE IF token \in Labels
  THEN [ok |-> TRUE, dz |-> FALSE, dzLit |-> FALSE, hasRef |-> TRUE,
        v |-> IF LookupError(SheetMemory[token]) = ""
              THEN SheetMemory[token].value ELSE Zero]
  ELSE NotWellFormed

\* ok: well formed; dz: some divisor is 0; dzLit: some divisor made of
\* literals only is 0; v: the value (meaningful when ok and not dz).
RefCombine(op, l, r) ==
  IF ~l.ok \/ ~r.ok THEN NotWellFormed
  ELSE [ok |-> TRUE,
        hasRef |-> l.hasRef \/ r.hasRef,
        dz |-> l.dz \/ r.dz \/ (op = "/" /\ IsZero(r.v)),
        dzLit |-> l.dzLit \/ r.dzLit \/ (op = "/" /\ IsZero(r.v) /\ ~r.hasRef),
        v |-> CASE op = "+" -> Plus(l.v, r.v)
                [] op = "-" -> Minus(l.v, r.v)
                [] op = "*" -> Times(l.v, r.v)
                [] op = "/" -> Divide(l.v, r.v)]

RECURSIVE RefEval(_)
RefEval(f) ==
  IF Len(f) = 0 \/ ~Balanced(f) THEN NotWellFormed
  ELSE LET add == TopLevel(f, {"+", "-"})
           mul == TopLevel(f, {"*", "/"})
           Split(k) == RefCombine(f[k], RefEval(SubSeq(f, 1, k - 1)),
                                  RefEval(SubSeq(f, k + 1, Len(f))))
       IN  IF add # {} THEN Split(Last(add))
           ELSE IF mul # {} THEN Split(Last(mul))
           ELSE IF Len(f) = 1 THEN RefAtom(f[1])
           ELSE IF f[1] = "(" /\ f[Len(f)] = ")"
                THEN RefEval(SubSeq(f, 2, Len(f) - 1))
           ELSE NotWellFormed

\* The formula of the last call, and what that call left behind.
Formula == this.currentFormula
Cursor == this.currentTokenIndex
Seen(ev) == ev \in this.trace.seen

\* The formula holds exactly one cell reference, and its lookup reports an error.
RefPositions(f) == {k \in 1..Len(f) : f[k] \in Labels}
OneFailingRef(f) ==
  /\ Cardinality(RefPositions(f)) = 1
  /\ \A k \in RefPositions(f) : LookupError(SheetMemory[f[k]]) # ""
FailingRefError(f) ==
  LookupError(SheetMemory[f[CHOOSE k \in RefPositions(f) : TRUE]])

\* ------------------------------------------------------------------ claims

\* C1: a well-formed formula over numeric literals, the four operators and
\* balanced parentheses, in which no divisor is 0, evaluates to the value of
\* the reference evaluator ('*' and '/' bind tighter, equal precedence
\* associates to the left) and leaves error empty; a single numeric token
\* returns that number.
C1_ReferenceValue ==
  called =>
    LET r == RefEval(Formula)
    IN  (r.ok /\ ~r.dz) => (returned = r.v /\ this.errorMessage = "")

\* 3 + 2 * 3 was evaluated, to 9 (and not to 15).
C1_Witness ==
  /\ called
  /\ Formula = <<"3", "+", "2", "*", "3">>
  /\ returned = FromInt(9)
  /\ this.errorMessage = ""

\* C2: whenever some '/' met a divisor equal to 0, evaluate returns Infinity,
\* lastResult is Infinity and error is the divideByZero message.
C2_DivideByZeroAnywhere ==
  (called /\ this.trace.zeroDiv) =>
    /\ returned = Infinity
    /\ this.lastResult = Infinity
    /\ this.errorMessage = ErrorMessages.divideByZero

\* C3 as stated: a non-empty formula whose parse met no zero divisor and no
\* failing reference, and ends with a token left unconsumed, returns 0 with
\* error invalidFormula.
C3_AsStated ==
  (called /\ Formula # <<>> /\ ~Seen("zeroDivisor") /\ ~Seen("refError")
     /\ Cursor # Len(Formula)) =>
    (returned = Zero /\ this.errorMessage = ErrorMessages.invalidFormula)

\* C3 amended: a non-empty formula whose parse ends with the error flag clear
\* (no zero divisor, no failing reference and no bad factor was met) and a
\* token left unconsumed returns 0 with error invalidFormula, whatever value
\* was computed for the parsed prefix.
C3_TrailingTokens ==
  (called /\ Formula # <<>> /\ ~this.errorOccurred /\ Cursor # Len(Formula)) =>
    (returned = Zero /\ this.errorMessage = ErrorMessages.invalidFormula)

\* 3 ) was rejected although its prefix evaluated to 3.
C3_Witness ==
  /\ called
  /\ Formula = <<"3", ")">>
  /\ this.result = FromInt(3)
  /\ returned = Zero
  /\ this.errorMessage = ErrorMessages.invalidFormula

\* C4: '(' E with E well formed, without zero divisor and never closed:
\* error is invalidFormula, the value of E is returned, and the failed match
\* of ')' leaves the cursor at the end of the formula.
C4_UnclosedParen ==
  (called /\ Len(Formula) >= 2 /\ Formula[1] = "(") =>
    LET r == RefEval(Tail(Formula))
    IN  (r.ok /\ ~r.dz) =>
          /\ returned = r.v
          /\ this.errorMessage = ErrorMessages.invalidFormula
          /\ Seen("matchFail")
          /\ Cursor = Len(Formula)

\* ( 3 + 2 returned 5 with the error latched.
C4_Witness ==
  /\ called
  /\ Formula = <<"(", "3", "+", "2">>
  /\ returned = FromInt(5)
  /\ this.errorMessage = ErrorMessages.invalidFormula

\* C5 as stated: a well-formed formula without a literal zero divisor and
\* with exactly one reference, to a cell whose lookup reports e, ends with
\* error = e, the reference having contributed 0.
C5_AsStated ==
  (called /\ OneFailingRef(Formula)) =>
    LET r == RefEval(Formula)
    IN  (r.ok /\ ~r.dzLit) =>
          /\ this.errorMessage = FailingRefError(Formula)
          /\ this.trace.refValues = <<Zero>>

\* C5 amended: the same, for the formulas in which no divisor evaluates to 0
\* once the reference is taken as 0; the call then returns the value of the
\* formula with 0 in place of the reference.
C5_RefErrorUnlessZeroDivisor ==
  (called /\ OneFailingRef(Formula)) =>
    LET r == RefEval(Formula)
    IN  (r.ok /\ ~r.dz) =>
          /\ this.errorMessage = FailingRefError(Formula)
          /\ this.trace.refValues = <<Zero>>
          /\ returned = r.v

\* 3 + C3 was evaluated: the empty cell reports invalidCell and counts as 0.
C5_Witness ==
  /\ called
  /\ Formula = <<"3", "+", "C3">>
  /\ this.errorMessage = ErrorMessages.invalidCell
  /\ returned = FromInt(3)

\* C6: after evaluate on a non-empty formula, lastResult is NaN when a
\* matchToken failure, a bad factor or a reference error occurred, Infinity
\* when a zero divisor was met, and result otherwise.
C6_LastResultConvention ==
  (called /\ Formula # <<>>) =>
    LET bad == Seen("matchFail") \/ Seen("badFactor") \/ Seen("refError")
        zero == this.trace.zeroDiv
    IN  /\ (bad /\ ~zero) => IsNaN(this.lastResult)
        /\ (zero /\ ~bad) => this.lastResult = Infinity
        /\ (~bad /\ ~zero) => this.lastResult = this.result

\* C7: after a call on the empty formula or on a formula rejected for its
\* trailing tokens the result accessor is 0; after any other call it is the
\* value that call computed.
C7_ResultAccessor ==
  called =>
    IF Formula = <<>> \/ (~this.errorOccurred /\ Cursor # Len(Formula))
    THEN this.result = Zero
    ELSE this.result = returned

\* C8: a call with the formula of the previous call leaves result, error and
\* lastResult as that call left them and returns the same value.
C8_Idempotent ==
  [][(called /\ this'.currentFormula = this.currentFormula) =>
       /\ this'.result = this.result
       /\ this'.errorMessage = this.errorMessage
       /\ this'.lastResult = this.lastResult
       /\ returned' = returned]_vars

\* ( 3 was evaluated twice in a row.
C8_Witness ==
  /\ repeated
  /\ Formula = <<"(", "3">>
  /\ returned = FromInt(3)

\* C9: every call returns a number; no token is consumed at or beyond the end
\* of the formula, the cursor never passes the end, and every loop iteration,
\* nested expression and factor after the first is paid for by one advance
\* of the cursor, so that the descent is bounded by the formula's length.
C9_Total ==
  called =>
    /\ IsNumberValue(returned)
    /\ ~this.trace.oob
    /\ Cursor <= Len(Formula)
    /\ Formula # <<>> =>
         /\ this.trace.loops + this.trace.expressionCalls - 1 <= Cursor
         /\ this.trace.factorCalls <= Cursor + 1

\* ( + 3: a bad factor left the cursor on '+', and the ')' was missing.
C9_Witness ==
  /\ called
  /\ Formula = <<"(", "+", "3">>
  /\ Seen("badFactor")
  /\ Seen("matchFail")
  /\ this.trace.factorCalls = 3

\* C10: once a zero divisor is met nothing more happens before evaluate
\* returns: the cursor stays where it was, no factor is evaluated, no
\* operator is applied, and the error is not overwritten.
C10_Abandoned ==
  (called /\ this.trace.zeroDiv) =>
    /\ this.trace.after = {}
    /\ Cursor = this.trace.zeroDivAt
    /\ this.errorMessage = ErrorMessages.divideByZero

====
